---- MODULE Spec2Model ----
(***************************************************************************)
(* Model of src/src/code_health_checker.py: CodeLineCounter,               *)
(* FunctionExtractor and CodeHealthChecker.scan / _check_file.             *)
(*                                                                         *)
(* A source line is a sequence of characters.  A parse result is what      *)
(* ast.parse hands back for a source text: a Module node with line         *)
(* metadata on every statement, or an exception.  The line numbering of    *)
(* the parser and str.splitlines() are separate computations (they differ  *)
(* on form feeds, for instance), so the text and the tree of a file are    *)
(* drawn independently.                                                    *)
(***************************************************************************)
EXTENDS FiniteSets, Integers, Sequences, TLC

\* ---------------------------------------------------------------- bounds
MaxLines == 3      \* physical lines of a source text
MaxNodes == 3      \* statements of a parsed module
MaxScans == 2      \* calls of scan() on one checker
MaxFiles == 2      \* files of a directory with more than one file
FileThreshold == 2      \* file_threshold the checker is constructed with
FunctionThreshold == 1  \* function_threshold the checker is constructed with

\* ------------------------------------------------------- python values
None == 0 - 2      \* the None of an optional line number
Absent == 0 - 1    \* an attribute the node does not have (hasattr is False)
NoClass == ""      \* the None of current_class

\* ---------------------------------------------------------------- state
VARIABLES
  py_files,            \* the files rglob lists, in order
  file_threshold,      \* self.file_threshold
  function_threshold,  \* self.function_threshold
  issues,              \* self.issues
  scans,               \* calls of scan() so far
  pc,                  \* position of the control in scan / _check_file
  file_idx,            \* index of the file the loop of scan is at
  counter,             \* _check_file: counter
  total_lines,         \* _check_file: total_lines
  effective_lines,     \* _check_file: effective_lines
  extractor,           \* _check_file: extractor
  results,             \* log of what each completed _check_file computed
  warnings             \* warnings written to stderr

vars == << py_files, file_threshold, function_threshold, issues, scans, pc,
           file_idx, counter, total_lines, effective_lines, extractor,
           results, warnings >>

locals == << counter, total_lines, effective_lines, extractor >>
config == << py_files, file_threshold, function_threshold >>

\* ------------------------------------------------------------ str.strip
Whitespace == {" ", "\t"}

RECURSIVE lstrip(_)
lstrip(s) ==
  IF s # <<>> /\ Head(s) \in Whitespace THEN lstrip(Tail(s)) ELSE s

RECURSIVE rstrip(_)
rstrip(s) ==
  IF s # <<>> /\ s[Len(s)] \in Whitespace
    THEN rstrip(SubSeq(s, 1, Len(s) - 1)) ELSE s

strip(s) == rstrip(lstrip(s))

startswith(s, c) == s # <<>> /\ Head(s) = c

Min(a, b) == IF a < b THEN a ELSE b

\* --------------------------------------------------------- source texts
LineSamples ==
  { <<" ", "\t">>,           \* blank: whitespace only
    <<" ", "#", "x">>,       \* indented whole-line comment
    <<" ", "x", "#">> }      \* code followed by a trailing comment

Texts == UNION { [1..n -> LineSamples] : n \in 0..MaxLines }

\* ---------------------------------------------------------- parse trees
\* A node of the tree ast.parse returns: kind is the node class, body its
\* statement list, lineno/end_lineno the 1-indexed line metadata, last_line
\* the line the statement ends on in the source (end_lineno, where the parser
\* reports it), is_str whether an Expr statement's value is a single string
\* constant, and newlines the number of "\n" in that constant's text.
DefKinds == {"FunctionDef", "AsyncFunctionDef"}
ScopeKinds == {"Module", "ClassDef"} \cup DefKinds

Leaves ==
  { [kind |-> "Expr",   is_str |-> TRUE,  span |-> 2, newlines |-> 1],
    [kind |-> "Expr",   is_str |-> FALSE, span |-> 1, newlines |-> 0],
    [kind |-> "Assign", is_str |-> FALSE, span |-> 1, newlines |-> 0] }

Compound == {"ClassDef", "FunctionDef", "AsyncFunctionDef"}

\* The statement lists of exactly n nodes, before line numbers are assigned.
RECURSIVE Bodies(_)
Stmts(n) ==
  (IF n = 1
     THEN { [kind |-> l.kind, is_str |-> l.is_str, span |-> l.span,
             newlines |-> l.newlines, body |-> <<>>] : l \in Leaves }
     ELSE {})
  \cup { [kind |-> k, is_str |-> FALSE, span |-> 1, newlines |-> 0, body |-> b] :
           k \in Compound, b \in Bodies(n - 1) }

Bodies(n) ==
  IF n = 0 THEN { <<>> }
  ELSE UNION { { <<s>> \o b : s \in Stmts(k), b \in Bodies(n - k) } : k \in 1..n }

\* The names the definitions of a file carry, one per header line.
NameOf(l) == <<"a", "b", "c", "d", "e", "f", "g", "h", "i", "j", "k", "l">>[l]

\* The lines a statement occupies: its header or literal, then its body.
RECURSIVE Extent(_)
RECURSIVE BodyExtent(_)
Extent(s) == s.span + BodyExtent(s.body)
BodyExtent(b) == IF b = <<>> THEN 0 ELSE Extent(Head(b)) + BodyExtent(Tail(b))

\* What the parser reports for end_lineno, by the kind of tree:
\*   "full"      every node carries it (ast.parse, Python >= 3.8)
\*   "absent"    no node has the attribute (ast.parse, Python < 3.8)
\*   "defs_none" definitions and classes lack it (it reads None), statements carry it
\*   "all_none"  no node was given one (it reads None on every node)
MetaKinds == {"full", "absent", "defs_none", "all_none"}

EndMeta(meta, kind, end) ==
  CASE meta = "full" -> end
    [] meta = "absent" -> Absent
    [] meta = "defs_none" -> IF kind \in Compound THEN None ELSE end
    [] OTHER -> None

\* The statements of b laid out from line `first` on, one after the other.
RECURSIVE Locate(_, _, _)
Locate(b, first, meta) ==
  IF b = <<>> THEN <<>>
  ELSE LET s == Head(b)
           last == first + Extent(s) - 1
       IN << [kind |-> s.kind,
              name |-> IF s.kind \in Compound THEN NameOf(first) ELSE "",
              lineno |-> first,
              end_lineno |-> EndMeta(meta, s.kind, last),
              last_line |-> last,
              is_str |-> s.is_str,
              newlines |-> s.newlines,
              body |-> Locate(s.body, first + s.span, meta)] >>
          \o Locate(Tail(b), last + 1, meta)

Module(b, meta) ==
  [kind |-> "Module", name |-> "", lineno |-> Absent, end_lineno |-> Absent,
   last_line |-> Absent, is_str |-> FALSE, newlines |-> 0, body |-> Locate(b, 1, meta)]

Trees ==
  { Module(b, meta) : b \in UNION { Bodies(n) : n \in 0..MaxNodes }, meta \in MetaKinds }

\* ast.parse raises instead of returning a tree.
Raised(e) ==
  [kind |-> e, name |-> "", lineno |-> Absent, end_lineno |-> Absent,
   last_line |-> Absent, is_str |-> FALSE, newlines |-> 0, body |-> <<>>]

ParseResults == Trees \cup { Raised("SyntaxError"), Raised("OtherError") }

\* ------------------------------------------------------ CodeLineCounter
\* ast.walk: breadth-first over a queue of nodes still to yield.
RECURSIVE walk(_)
walk(todo) ==
  IF todo = <<>> THEN <<>>
  ELSE <<Head(todo)>> \o walk(Tail(todo) \o Head(todo).body)

\* ast.get_docstring(node, clean=False) is not None.
get_docstring(node) ==
  /\ node.kind \in ScopeKinds
  /\ node.body # <<>>
  /\ node.body[1].kind = "Expr"
  /\ node.body[1].is_str

\* Mutant: the end line of the docstring is left out of the range.
DocstringLines_EndExclusive(node, lines) ==
  IF ~get_docstring(node) THEN {}
  ELSE LET first_stmt == node.body[1]
           start == first_stmt.lineno - 1
           end == IF first_stmt.end_lineno # Absent /\ first_stmt.end_lineno # None
                    THEN first_stmt.end_lineno - 1
                    ELSE start + first_stmt.newlines
       IN start..(Min(end, Len(lines)) - 1)

\* Mutant: the range is not clipped to the file.
DocstringLines_Unclipped(node, lines) ==
  IF ~get_docstring(node) THEN {}
  ELSE LET first_stmt == node.body[1]
           start == first_stmt.lineno - 1
           end == IF first_stmt.end_lineno # Absent /\ first_stmt.end_lineno # None
                    THEN first_stmt.end_lineno
                    ELSE start + first_stmt.newlines + 1
       IN start..(end - 1)

\* The indices one node of the walk adds to docstring_ranges.
DocstringLines(node, lines) ==
  IF node.kind \notin ScopeKinds THEN {}
  ELSE IF node.body = <<>> THEN {}
  ELSE IF node.body[1].kind # "Expr" THEN {}
  ELSE IF ~get_docstring(node) THEN {}
  ELSE LET first_stmt == node.body[1]
           start == first_stmt.lineno - 1
           end == IF first_stmt.end_lineno # Absent /\ first_stmt.end_lineno # None
                    THEN first_stmt.end_lineno
                    ELSE start + first_stmt.newlines + 1
       IN start..(Min(end, Len(lines)) - 1)

_identify_docstrings(lines, parsed) ==
  IF parsed.kind = "SyntaxError" THEN {}
  ELSE LET nodes == walk(<<parsed>>)
       IN UNION { DocstringLines(nodes[k], lines) : k \in 1..Len(nodes) }

\* CodeLineCounter(source_code): the object's fields after __init__.
CodeLineCounter(lines, parsed) ==
  [lines |-> lines, docstring_ranges |-> _identify_docstrings(lines, parsed)]

\* Mutant: a line is tested for the comment marker before it is stripped.
RECURSIVE CountLoop_Unstripped(_, _, _, _)
CountLoop_Unstripped(c, i, stop, acc) ==
  IF i >= stop THEN acc
  ELSE LET stripped == strip(c.lines[i + 1])
       IN IF i \in c.docstring_ranges THEN CountLoop_Unstripped(c, i + 1, stop, acc)
          ELSE IF stripped = <<>> THEN CountLoop_Unstripped(c, i + 1, stop, acc)
          ELSE IF startswith(c.lines[i + 1], "#")
            THEN CountLoop_Unstripped(c, i + 1, stop, acc)
          ELSE CountLoop_Unstripped(c, i + 1, stop, acc + 1)

\* The loop of count_effective_lines from index i up to stop, count so far acc.
RECURSIVE CountLoop(_, _, _, _)
CountLoop(c, i, stop, acc) ==
  IF i >= stop THEN acc
  ELSE LET stripped == strip(c.lines[i + 1])
       IN IF i \in c.docstring_ranges THEN CountLoop(c, i + 1, stop, acc)
          ELSE IF stripped = <<>> THEN CountLoop(c, i + 1, stop, acc)
          ELSE IF startswith(stripped, "#") THEN CountLoop(c, i + 1, stop, acc)
          ELSE CountLoop(c, i + 1, stop, acc + 1)

count_effective_lines(c, start_line, end_line) ==
  LET end == IF end_line = None THEN Len(c.lines) ELSE end_line
  IN CountLoop(c, start_line, Min(end, Len(c.lines)), 0)

\* ---------------------------------------------------- FunctionExtractor
\* Mutant: the functions list is shared between extractors.
FunctionExtractor_SharedList(lines, parsed) ==
  [functions |-> extractor.functions,
   counter |-> CodeLineCounter(lines, parsed),
   current_class |-> NoClass]

\* FunctionExtractor(source_code): the object's fields after __init__.
FunctionExtractor(lines, parsed) ==
  [functions |-> <<>>,
   counter |-> CodeLineCounter(lines, parsed),
   current_class |-> NoClass]

\* Mutant: the fallback takes the first body statement, not the last.
_process_function_FirstStmt(node, ex) ==
  LET start_line == node.lineno - 1
      own == IF node.end_lineno = Absent THEN None ELSE node.end_lineno
      end_line ==
        IF own # None THEN own
        ELSE IF node.body # <<>>
          THEN LET last == node.body[1]
               IN IF last.end_lineno # Absent THEN last.end_lineno ELSE last.lineno
          ELSE start_line + 1
      effective == count_effective_lines(ex.counter, start_line, end_line)
      func_type == IF ex.current_class # NoClass THEN "method" ELSE "function"
  IN [ex EXCEPT !.functions = Append(@,
        [name |-> node.name,
         type |-> func_type,
         class |-> ex.current_class,
         start_line |-> node.lineno,
         end_line |-> end_line,
         effective_lines |-> effective])]

_process_function(node, ex) ==
  LET start_line == node.lineno - 1
      own == IF node.end_lineno = Absent THEN None ELSE node.end_lineno
      end_line ==
        IF own # None THEN own
        ELSE IF node.body # <<>>
          THEN LET last == node.body[Len(node.body)]
               IN IF last.end_lineno # Absent THEN last.end_lineno ELSE last.lineno
          ELSE start_line + 1
      effective == count_effective_lines(ex.counter, start_line, end_line)
      func_type == IF ex.current_class # NoClass THEN "method" ELSE "function"
  IN [ex EXCEPT !.functions = Append(@,
        [name |-> node.name,
         type |-> func_type,
         class |-> ex.current_class,
         start_line |-> node.lineno,
         end_line |-> end_line,
         effective_lines |-> effective])]

\* NodeVisitor.visit dispatches on the node class; generic_visit visits the
\* child nodes in field order.
RECURSIVE visit(_, _)
RECURSIVE generic_visit(_, _, _)

\* Mutant: current_class is not restored on leaving the class.
visit_ClassDef_NoRestore(node, ex) ==
  generic_visit(node, [ex EXCEPT !.current_class = node.name], 1)

visit_ClassDef(node, ex) ==
  LET old_class == ex.current_class
      inner == generic_visit(node, [ex EXCEPT !.current_class = node.name], 1)
  IN [inner EXCEPT !.current_class = old_class]

\* Mutant: the definition is recorded after its body has been visited.
visit_FunctionDef_PostOrder(node, ex) ==
  _process_function(node, generic_visit(node, ex, 1))

visit_FunctionDef(node, ex) == generic_visit(node, _process_function(node, ex), 1)

visit_AsyncFunctionDef(node, ex) == generic_visit(node, _process_function(node, ex), 1)

visit(node, ex) ==
  CASE node.kind = "ClassDef" -> visit_ClassDef(node, ex)
    [] node.kind = "FunctionDef" -> visit_FunctionDef(node, ex)
    [] node.kind = "AsyncFunctionDef" -> visit_AsyncFunctionDef(node, ex)
    [] OTHER -> generic_visit(node, ex, 1)

generic_visit(node, ex, k) ==
  IF k > Len(node.body) THEN ex
  ELSE generic_visit(node, visit(node.body[k], ex), k + 1)

\* ------------------------------------------------------ CodeHealthChecker
\* One *.py path of the directory: whether should_exclude holds of it,
\* whether open/read succeeds, the text read and what ast.parse does with it.
File(excluded, readable, lines, parsed) ==
  [excluded |-> excluded, readable |-> readable, lines |-> lines, parsed |-> parsed]

current == py_files[file_idx]

FunctionIssue(func_info) ==
  [name |-> func_info.name,
   start_line |-> func_info.start_line,
   end_line |-> func_info.end_line,
   effective_lines |-> func_info.effective_lines,
   type |-> func_info.type]

FileIssue(path, total, effective) ==
  [file_path |-> path, total_lines |-> total, effective_lines |-> effective,
   functions |-> <<>>]

\* Mutant: a function whose count equals the threshold is reported too.
RECURSIVE ThresholdLoop_AtLeast(_, _, _, _, _, _, _)
ThresholdLoop_AtLeast(funcs, k, file_issue, path, total, effective, threshold) ==
  IF k > Len(funcs) THEN file_issue
  ELSE IF funcs[k].effective_lines >= threshold
    THEN LET func_issue == FunctionIssue(funcs[k])
             made == IF file_issue = <<>>
                       THEN FileIssue(path, total, effective)
                       ELSE file_issue[1]
         IN ThresholdLoop_AtLeast(funcs, k + 1,
              << [made EXCEPT !.functions = Append(@, func_issue)] >>,
              path, total, effective, threshold)
    ELSE ThresholdLoop_AtLeast(funcs, k + 1, file_issue, path, total, effective,
                               threshold)

\* The loop of _check_file over extractor.functions from index k on;
\* file_issue is <<>> for None and <<issue>> otherwise.
RECURSIVE ThresholdLoop(_, _, _, _, _, _, _)
ThresholdLoop(funcs, k, file_issue, path, total, effective, threshold) ==
  IF k > Len(funcs) THEN file_issue
  ELSE IF funcs[k].effective_lines > threshold
    THEN LET func_issue == FunctionIssue(funcs[k])
             made == IF file_issue = <<>>
                       THEN FileIssue(path, total, effective)
                       ELSE file_issue[1]
         IN ThresholdLoop(funcs, k + 1,
              << [made EXCEPT !.functions = Append(@, func_issue)] >>,
              path, total, effective, threshold)
    ELSE ThresholdLoop(funcs, k + 1, file_issue, path, total, effective, threshold)

\* scan(): list the files and enter the loop.
Scan ==
  /\ pc = "idle"
  /\ scans < MaxScans
  /\ scans' = scans + 1
  /\ file_idx' = 1
  /\ pc' = "loop"
  /\ UNCHANGED << config, issues, locals, results, warnings >>

\* scan(): the loop is exhausted, scan returns.
ScanReturn ==
  /\ pc = "loop"
  /\ file_idx > Len(py_files)
  /\ pc' = "idle"
  /\ UNCHANGED << config, issues, scans, file_idx, locals, results, warnings >>

\* scan(): should_exclude(file_path) holds, continue with the next file.
SkipExcluded ==
  /\ pc = "loop"
  /\ file_idx <= Len(py_files)
  /\ current.excluded
  /\ file_idx' = file_idx + 1
  /\ UNCHANGED << config, issues, scans, pc, locals, results, warnings >>

\* What makes the first statements of _check_file raise: open/read fails, or
\* ast.parse raises something that is not a SyntaxError inside
\* CodeLineCounter.__init__.
Raises(f) == ~f.readable \/ f.parsed.kind = "OtherError"

\* Mutant: the exception of _check_file ends the scan.
WarnAndContinue_Abort ==
  /\ pc = "loop"
  /\ file_idx <= Len(py_files)
  /\ ~current.excluded
  /\ Raises(current)
  /\ warnings' = warnings + 1
  /\ file_idx' = Len(py_files) + 1
  /\ UNCHANGED << config, issues, scans, pc, locals, results >>

\* scan(): _check_file raised; the handler prints a warning and the loop goes on.
WarnAndContinue ==
  /\ pc = "loop"
  /\ file_idx <= Len(py_files)
  /\ ~current.excluded
  /\ Raises(current)
  /\ warnings' = warnings + 1
  /\ file_idx' = file_idx + 1
  /\ UNCHANGED << config, issues, scans, pc, locals, results >>

\* _check_file: read the file and construct the counter.
NewCounter ==
  /\ pc = "loop"
  /\ file_idx <= Len(py_files)
  /\ ~current.excluded
  /\ ~Raises(current)
  /\ counter' = CodeLineCounter(current.lines, current.parsed)
  /\ pc' = "count"
  /\ UNCHANGED << config, issues, scans, file_idx, total_lines, effective_lines,
                  extractor, results, warnings >>

\* _check_file: total_lines and effective_lines.
CountFile ==
  /\ pc = "count"
  /\ total_lines' = Len(counter.lines)
  /\ effective_lines' = count_effective_lines(counter, 0, None)
  /\ pc' = "extractor"
  /\ UNCHANGED << config, issues, scans, file_idx, counter, extractor, results,
                  warnings >>

\* _check_file: construct the extractor.
NewExtractor ==
  /\ pc = "extractor"
  /\ extractor' = FunctionExtractor(current.lines, current.parsed)
  /\ pc' = "visit"
  /\ UNCHANGED << config, issues, scans, file_idx, counter, total_lines,
                  effective_lines, results, warnings >>

\* _check_file: parse and visit the tree, or give up the functions on a SyntaxError.
VisitTree ==
  /\ pc = "visit"
  /\ extractor' = IF current.parsed.kind = "SyntaxError"
                    THEN [extractor EXCEPT !.functions = <<>>]
                    ELSE visit(current.parsed, extractor)
  /\ pc' = "thresholds"
  /\ UNCHANGED << config, issues, scans, file_idx, counter, total_lines,
                  effective_lines, results, warnings >>

\* _check_file: apply the thresholds, append the issue if there is one, return.
CheckThresholds ==
  /\ pc = "thresholds"
  /\ LET first == IF effective_lines > file_threshold
                    THEN << FileIssue(file_idx, total_lines, effective_lines) >>
                    ELSE <<>>
         file_issue == ThresholdLoop(extractor.functions, 1, first, file_idx,
                                     total_lines, effective_lines, function_threshold)
     IN issues' = IF file_issue # <<>> THEN Append(issues, file_issue[1]) ELSE issues
  /\ results' = Append(results,
       [scan |-> scans, path |-> file_idx, total_lines |-> total_lines,
        effective_lines |-> effective_lines, functions |-> extractor.functions])
  /\ file_idx' = file_idx + 1
  /\ pc' = "loop"
  /\ UNCHANGED << config, scans, locals, warnings >>

Next ==
  \/ Scan
  \/ ScanReturn
  \/ SkipExcluded
  \/ WarnAndContinue
  \/ NewCounter
  \/ CountFile
  \/ NewExtractor
  \/ VisitTree
  \/ CheckThresholds

\* The files a directory of one file is made of.
Files ==
  { File(TRUE, TRUE, <<>>, Raised("SyntaxError")),
    File(FALSE, FALSE, <<>>, Raised("SyntaxError")) }
  \cup { File(FALSE, TRUE, t, p) : t \in Texts, p \in ParseResults }

\* The files the directories of several files are made of: an excluded one, an
\* unreadable one, one the parser raises on, two that do not parse (three code
\* lines, one comment line) and one function of two statements.
CodeLine == <<" ", "x", "#">>
CommentLine == <<" ", "#", "x">>
AssignStmt ==
  [kind |-> "Assign", is_str |-> FALSE, span |-> 1, newlines |-> 0, body |-> <<>>]
OneFunction ==
  << [kind |-> "FunctionDef", is_str |-> FALSE, span |-> 1, newlines |-> 0,
      body |-> << AssignStmt, AssignStmt >>] >>

ScanFiles ==
  { File(TRUE, TRUE, <<>>, Raised("SyntaxError")),
    File(FALSE, FALSE, <<>>, Raised("SyntaxError")),
    File(FALSE, TRUE, <<CodeLine>>, Raised("OtherError")),
    File(FALSE, TRUE, <<CodeLine, CodeLine, CodeLine>>, Raised("SyntaxError")),
    File(FALSE, TRUE, <<CommentLine>>, Raised("SyntaxError")),
    File(FALSE, TRUE, <<CodeLine, CodeLine, CodeLine>>, Module(OneFunction, "full")) }

Directories ==
  { <<f>> : f \in Files }
  \cup UNION { [1..n -> ScanFiles] : n \in 2..MaxFiles }

Init ==
  /\ py_files \in Directories
  /\ file_threshold = FileThreshold
  /\ function_threshold = FunctionThreshold
  /\ issues = <<>>
  /\ scans = 0
  /\ pc = "idle"
  /\ file_idx = 0
  /\ counter = [lines |-> <<>>, docstring_ranges |-> {}]
  /\ total_lines = 0
  /\ effective_lines = 0
  /\ extractor = [functions |-> <<>>,
                  counter |-> [lines |-> <<>>, docstring_ranges |-> {}],
                  current_class |-> NoClass]
  /\ results = <<>>
  /\ warnings = 0

Spec == Init /\ [][Next]_vars

\* ------------------------------------------------------------- claims
Parsed == current.parsed
InFile == pc \in {"count", "extractor", "visit", "thresholds"}

\* The indices of [start, min(end, len)) that survive the three exclusions.
Survivors(c, start, end) ==
  { i \in start..(Min(end, Len(c.lines)) - 1) :
      /\ i \notin c.docstring_ranges
      /\ strip(c.lines[i + 1]) # <<>>
      /\ Head(strip(c.lines[i + 1])) # "#" }

\* C1: for every range (start, end) with 0 <= start, count_effective_lines
\* returns the number of indices of [start, min(end, len(lines))) that are not
\* documentation lines, not blank and not whole-line comments, each counted
\* once; an omitted end means len(lines).
C1_CountIsSurvivors ==
  /\ pc = "count" =>
       \A s \in 0..(MaxLines + 1) :
         /\ \A e \in 0..(MaxLines + 1) :
              count_effective_lines(counter, s, e) = Cardinality(Survivors(counter, s, e))
         /\ count_effective_lines(counter, s, None)
              = Cardinality(Survivors(counter, s, Len(counter.lines)))
  /\ pc = "extractor" =>
       effective_lines = Cardinality(Survivors(counter, 0, Len(counter.lines)))

\* A file whose count left out a documentation line and a blank or comment
\* line and kept a code line.
C1_Witness ==
  /\ pc = "extractor"
  /\ counter.docstring_ranges # {}
  /\ effective_lines > 0
  /\ effective_lines + Cardinality(counter.docstring_ranges) < total_lines

\* The nodes of a tree, by descent.
RECURSIVE Nodes(_)
Nodes(n) == {n} \cup UNION { Nodes(n.body[k]) : k \in 1..Len(n.body) }

Reported(line) == line # None /\ line # Absent

\* The documentation strings of a tree: the first body statement of a module,
\* class or (async) function that is a bare string literal.
DocStrings(tree) ==
  { n.body[1] : n \in { m \in Nodes(tree) :
      /\ m.kind \in {"Module", "ClassDef", "FunctionDef", "AsyncFunctionDef"}
      /\ m.body # <<>>
      /\ m.body[1].kind = "Expr"
      /\ m.body[1].is_str } }

\* The string-literal statements that are not the first of their body.
LaterStrings(tree) ==
  { s \in UNION { { n.body[k] : k \in 2..Len(n.body) } : n \in Nodes(tree) } :
      s.kind = "Expr" /\ s.is_str }

C3_DocstringRangeInBounds ==
  /\ InFile =>
       \A i \in counter.docstring_ranges : 0 <= i /\ i < Len(counter.lines)
  /\ pc \in {"visit", "thresholds"} =>
       \A i \in extractor.counter.docstring_ranges :
         0 <= i /\ i < Len(extractor.counter.lines)

\* A docstring without end line whose estimated end lies beyond the file, and
\* whose lines inside the file were recorded.
C3_Witness ==
  /\ pc = "count"
  /\ Parsed.kind = "Module"
  /\ counter.docstring_ranges # {}
  /\ \E d \in DocStrings(Parsed) :
       /\ ~Reported(d.end_lineno)
       /\ (d.lineno - 1) \in counter.docstring_ranges
       /\ d.lineno + d.newlines > Len(counter.lines)

\* ------------------------------------------- definitions of a tree, by path
RECURSIVE PathsOf(_)
PathsOf(n) ==
  { <<>> } \cup UNION { { <<k>> \o p : p \in PathsOf(n.body[k]) } : k \in 1..Len(n.body) }

RECURSIVE NodeAt(_, _)
NodeAt(n, p) == IF p = <<>> THEN n ELSE NodeAt(n.body[Head(p)], Tail(p))

IsPrefix(q, p) == Len(q) < Len(p) /\ SubSeq(p, 1, Len(q)) = q

\* p comes before q in pre-order: p is an ancestor of q, or p branches off to
\* the left of q.
PreBefore(p, q) ==
  \/ IsPrefix(p, q)
  \/ \E i \in 1..Min(Len(p), Len(q)) :
       /\ SubSeq(p, 1, i - 1) = SubSeq(q, 1, i - 1)
       /\ p[i] < q[i]

DefPaths == { p \in PathsOf(Parsed) : NodeAt(Parsed, p).kind \in DefKinds }
ClassesAbove(p) ==
  { q \in PathsOf(Parsed) : IsPrefix(q, p) /\ NodeAt(Parsed, q).kind = "ClassDef" }
Innermost(qs) == CHOOSE q \in qs : \A r \in qs : Len(r) <= Len(q)

Records == extractor.functions
RecordsOf(p) == { k \in 1..Len(Records) : Records[k].start_line = NodeAt(Parsed, p).lineno }
Visited == pc = "thresholds" /\ Parsed.kind = "Module"

PlainCount(lines) ==
  Cardinality({ i \in 1..Len(lines) :
    strip(lines[i]) # <<>> /\ Head(strip(lines[i])) # "#" })

Done(j) == scans >= 1 /\ (file_idx > j \/ pc = "idle")

\* C5: when parsing the source fails, the analysis of the file completes
\* without an exception escaping, with no documentation ranges, an effective
\* count equal to the number of non-blank non-comment lines, and no functions.
C5_DegradedMode ==
  \A j \in 1..Len(py_files) :
    (/\ Done(j)
     /\ ~py_files[j].excluded
     /\ py_files[j].readable
     /\ py_files[j].parsed.kind # "Module")
    => \E k \in 1..Len(results) :
         /\ results[k].path = j
         /\ results[k].scan = scans
         /\ results[k].effective_lines = PlainCount(py_files[j].lines)
         /\ results[k].functions = <<>>

\* C6: a record is a method iff a class definition is among the ancestors of
\* its definition, whatever lies in between, and its class is then the
\* innermost such class; otherwise it is a function without class.  The
\* current-class slot is back to None when the walk is over.
C6_MethodIffClassAbove ==
  Visited =>
    /\ extractor.current_class = NoClass
    /\ \A p \in DefPaths :
         \E k \in RecordsOf(p) :
           /\ Records[k].name = NodeAt(Parsed, p).name
           /\ Records[k].type = "method" <=> ClassesAbove(p) # {}
           /\ ClassesAbove(p) # {} =>
                Records[k].class = NodeAt(Parsed, Innermost(ClassesAbove(p))).name
           /\ ClassesAbove(p) = {} =>
                Records[k].type = "function" /\ Records[k].class = NoClass

\* A class holding a nested class and then a definition: the definition is a
\* method of the outer class.
C6_Witness ==
  /\ Visited
  /\ \E p \in DefPaths :
       /\ p = <<1, 2>>
       /\ NodeAt(Parsed, <<1>>).kind = "ClassDef"
       /\ NodeAt(Parsed, <<1, 1>>).kind = "ClassDef"
       /\ \E k \in RecordsOf(p) :
            Records[k].type = "method" /\ Records[k].class = NodeAt(Parsed, <<1>>).name

\* C7: the records are in tree pre-order, one record for every function and
\* async function definition of the tree.
C7_RecordsInPreOrder ==
  Visited =>
    /\ Len(Records) = Cardinality(DefPaths)
    /\ \A p \in DefPaths : Cardinality(RecordsOf(p)) = 1
    /\ \A p \in DefPaths : \A q \in DefPaths :
         PreBefore(p, q) =>
           \A k \in RecordsOf(p) : \A l \in RecordsOf(q) : k < l

\* A definition with a nested definition and a following sibling definition.
C7_Witness ==
  /\ Visited
  /\ Len(Records) = 3
  /\ { <<1>>, <<1, 1>>, <<2>> } \subseteq DefPaths
  /\ NodeAt(Parsed, <<1, 1>>).kind = "AsyncFunctionDef"

ExitCode == IF issues # <<>> THEN 1 ELSE 0

Processed(j) == ~py_files[j].excluded /\ ~Raises(py_files[j])

ResultViolates(j) ==
  \E k \in 1..Len(results) :
    /\ results[k].path = j
    /\ \/ results[k].effective_lines > file_threshold
       \/ \E f \in 1..Len(results[k].functions) :
            results[k].functions[f].effective_lines > function_threshold

\* C9: a file whose processing raises does not abort the scan: it leaves no
\* issue, every other non-excluded file is still processed in every scan, and
\* the exit indicator is what the other files alone make it.
C9_ScanSurvivesFailures ==
  (pc = "idle" /\ scans >= 1) =>
    /\ \A j \in 1..Len(py_files) :
         Raises(py_files[j]) => \A k \in 1..Len(issues) : issues[k].file_path # j
    /\ \A j \in 1..Len(py_files) :
         Processed(j) =>
           \A s \in 1..scans :
             \E k \in 1..Len(results) : results[k].path = j /\ results[k].scan = s
    /\ ExitCode = IF \E j \in 1..Len(py_files) : Processed(j) /\ ResultViolates(j)
                    THEN 1 ELSE 0

\* A scan of a failing file followed by a file with an issue.
C9_Witness ==
  /\ pc = "idle"
  /\ scans = 1
  /\ Len(py_files) = 2
  /\ ~py_files[1].excluded
  /\ Raises(py_files[1])
  /\ warnings = 1
  /\ Len(issues) = 1
  /\ issues[1].file_path = 2

\* C10: running the pipeline twice on the same text yields the same function
\* records in the same order and the same total and effective line counts.
C10_SameResultTwice ==
  \A k \in 1..Len(results) : \A l \in 1..Len(results) :
    results[k].path = results[l].path =>
      /\ results[k].functions = results[l].functions
      /\ results[k].total_lines = results[l].total_lines
      /\ results[k].effective_lines = results[l].effective_lines

\* A file analysed in two scans, with function records.
C10_Witness ==
  \E k \in 1..Len(results) : \E l \in 1..Len(results) :
    /\ results[k].path = results[l].path
    /\ results[k].scan # results[l].scan
    /\ Len(results[k].functions) >= 2
    /\ results[k].effective_lines > 0

\* The function records of a result that exceed function_threshold, in order.
ExceedsFunctionThreshold(f) == f.effective_lines > function_threshold
Exceeding(r) == SelectSeq(r.functions, ExceedsFunctionThreshold)

\* A completed analysis that has a violation, of the file or of a function.
IsViolation(r) == r.effective_lines > file_threshold \/ Exceeding(r) # <<>>
Violations == SelectSeq(results, IsViolation)

\* C11: _check_file appends a FileIssue iff the effective count of the file
\* is strictly greater than file_threshold or some function record is
\* strictly greater than function_threshold; the issue lists exactly the
\* function records that exceed function_threshold, in extraction order.
C11_IssueIffExceeds ==
  /\ Len(issues) = Len(Violations)
  /\ \A k \in 1..Len(issues) :
       LET r == Violations[k]
           exceeding == Exceeding(r)
       IN /\ issues[k].file_path = r.path
          /\ issues[k].total_lines = r.total_lines
          /\ issues[k].effective_lines = r.effective_lines
          /\ Len(issues[k].functions) = Len(exceeding)
          /\ \A f \in 1..Len(exceeding) :
               /\ issues[k].functions[f].name = exceeding[f].name
               /\ issues[k].functions[f].start_line = exceeding[f].start_line
               /\ issues[k].functions[f].end_line = exceeding[f].end_line
               /\ issues[k].functions[f].effective_lines = exceeding[f].effective_lines
               /\ issues[k].functions[f].type = exceeding[f].type

\* A file below file_threshold with one function over function_threshold,
\* which is reported, and one function at the threshold, which is not.
C11_Witness ==
  /\ Len(issues) = 1
  /\ Len(results) = 1
  /\ results[1].effective_lines <= file_threshold
  /\ Len(results[1].functions) = 2
  /\ Len(issues[1].functions) = 1
  /\ \E f \in 1..2 : results[1].functions[f].effective_lines = function_threshold

\* C12: after any sequence of scans of an unchanged directory, issues holds
\* at most one FileIssue per file path.
C12_OneIssuePerPath ==
  \A k \in 1..Len(issues) : \A l \in 1..Len(issues) :
    issues[k].file_path = issues[l].file_path => k = l

====
